---- MODULE Spec2Model ----
(***************************************************************************)
(* Verification model of the "verifymyth" Netlify function and of its two  *)
(* historical variants:                                                    *)
(*   "verifymyth" : src/netlify/functions/verifymyth.js (POST, JSON body)  *)
(*   "part_000"   : src/unnamed/part_000 (POST, JSON body, cached dir)     *)
(*   "part_001"   : src/unnamed/part_001 (query string parameters)         *)
(* Strings are sequences of tokens (one-character strings, or a whole      *)
(* literal fragment) so that trim / toUpperCase / startsWith / join are    *)
(* computed and not assumed.  JavaScript values are tagged records         *)
(* [t |-> type, s |-> tokens].                                             *)
(***************************************************************************)
EXTENDS Integers, Sequences, FiniteSets, TLC

VARIABLES variant, fsys, apiKey, cachedDataDir, pc, event, locals, fetches, res, log, response

vars == <<variant, fsys, apiKey, cachedDataDir, pc, event, locals, fetches, res, log, response>>

\* ------------------------------------------------------------------------
\* JavaScript values and string primitives
\* ------------------------------------------------------------------------
JSUndef == [t |-> "undef", s |-> <<>>]
JSNull == [t |-> "null", s |-> <<>>]
Str(s) == [t |-> "str", s |-> s]
Num(s) == [t |-> "num", s |-> s]
Arr(s) == [t |-> "arr", s |-> s]

\* JavaScript truthiness of a tagged value (x || y, !x).
Truthy(x) == /\ x.t \notin {"undef", "null"}
             /\ (x.t = "str" => x.s # <<>>)

\* x || y
OrElse(x, y) == IF Truthy(x) THEN x ELSE y

WhiteSpace == {" "}

RECURSIVE TrimStart(_)
TrimStart(s) == IF s # <<>> /\ Head(s) \in WhiteSpace THEN TrimStart(Tail(s)) ELSE s

RECURSIVE TrimEnd(_)
TrimEnd(s) == IF s # <<>> /\ s[Len(s)] \in WhiteSpace
              THEN TrimEnd(SubSeq(s, 1, Len(s) - 1)) ELSE s

\* String.prototype.trim
Trim(s) == TrimEnd(TrimStart(s))

\* toUpperCase / toLowerCase on the tokens used by the model.
UpperTok(c) == CASE c = "a" -> "A" [] c = "b" -> "B" [] c = "z" -> "Z"
                 [] c = "es" -> "ES" [] c = "en" -> "EN" [] c = "blog.txt" -> "BLOG.TXT"
                 [] c = "metrics" -> "METRICS"
                 [] c = "lama_index.json" -> "LAMA_INDEX.JSON"
                 [] OTHER -> c
LowerTok(c) == CASE c = "A" -> "a" [] c = "B" -> "b" [] c = "Z" -> "z"
                 [] c = "ES" -> "es" [] c = "EN" -> "en" [] c = "BLOG.TXT" -> "blog.txt"
                 [] c = "METRICS" -> "metrics"
                 [] OTHER -> c
toUpperCase(s) == [i \in 1..Len(s) |-> UpperTok(s[i])]
toLowerCase(s) == [i \in 1..Len(s) |-> LowerTok(s[i])]

startsWith(s, p) == Len(p) <= Len(s) /\ SubSeq(s, 1, Len(p)) = p
endsWith(s, p) == Len(p) <= Len(s) /\ SubSeq(s, Len(s) - Len(p) + 1, Len(s)) = p

\* Array.prototype.join(sep) over a sequence of strings.
RECURSIVE join(_, _)
join(parts, sep) == IF parts = <<>> THEN <<>>
                    ELSE IF Len(parts) = 1 THEN parts[1]
                    ELSE parts[1] \o sep \o join(Tail(parts), sep)

\* A message "contains" an identifier when the identifier's tokens occur
\* contiguously in it.
Contains(msg, id) == \E i \in 1..(Len(msg) - Len(id) + 1) : SubSeq(msg, i, i + Len(id) - 1) = id

\* Results of operations that may throw.
Ok(v) == [thrown |-> FALSE, value |-> v]
Throw(m) == [thrown |-> TRUE, message |-> m]

\* ------------------------------------------------------------------------
\* The deployment: handler variant, data directories, catalog, review texts
\* ------------------------------------------------------------------------
Variants == {"verifymyth", "part_000", "part_001"}
PostVariants == {"verifymyth", "part_000"}

corsHeaders(v) ==
  [origin |-> "*",
   methods |-> IF v = "part_001" THEN "GET, POST, OPTIONS" ELSE "POST,OPTIONS",
   allowHeaders |-> "Content-Type"]

\* Ordered candidate directories of each variant.
candidates(v) ==
  CASE v = "verifymyth" ->
         << <<"__dirname/data">>, <<"__dirname/verifymyth_data">>,
            <<"__dirname/../verifymyth_data">>, <<"/var/task/netlify/functions/data">>,
            <<"/var/task/netlify/functions/verifymyth_data">>, <<"/var/task/data">>,
            <<"/var/task/verifymyth_data">> >>
    [] v = "part_000" ->
         << <<"__dirname/data">>, <<"__dirname/../data">>,
            <<"__dirname/netlify/functions/data">>, <<"cwd/netlify/functions/data">>,
            <<"cwd/data">> >>
    [] v = "part_001" ->
         << <<"__dirname/data">>, <<"__dirname/../data">>,
            <<"/var/task/netlify/functions/data">>, <<"/var/task/data">>,
            <<"/var/data">> >>

DATA_DIR_CANDIDATES == candidates("part_001")

\* What a candidate path is on disk.
PathKinds == {"absent", "dir", "file"}

\* Only the first MaxProbe candidates may exist on disk.
MaxProbe == 3

Layouts(v) == {f \in [1..Len(candidates(v)) -> PathKinds] :
                 \A i \in 1..Len(candidates(v)) : i > MaxProbe => f[i] = "absent"}
DefaultLayout(v) == [i \in 1..Len(candidates(v)) |-> IF i = 1 THEN "dir" ELSE "absent"]

\* Product records of lama_index.json.
Product(asin, upperAsin, name, tags) ==
  [asin |-> asin, ASIN |-> upperAsin, nombre_producto |-> Str(<<name>>),
   market |-> Str(<<"ES">>), categoria_inferida |-> Str(<<"cat">>),
   n_reviews |-> Num(<<"12">>), mean_stars |-> Num(<<"4.5">>),
   tags_tematica |-> tags, prob_chasco |-> Num(<<"0.1">>)]

recA == Product(Str(<<"A">>), JSUndef, "pA", Arr(<<"t1">>))
recB == Product(Str(<<"b">>), JSUndef, "pB", JSUndef)
recA2 == Product(Str(<<"a">>), JSUndef, "pA2", Arr(<<>>))
recZ == Product(JSUndef, Str(<<"Z">>), "pZ", JSUndef)

RecordLists == { <<>>, <<recA, recB>>, <<recA, recA2, recB>>, <<recZ, recA, recB>> }

\* Parsed JSON documents.
JArr(items) == [t |-> "arr", s |-> items]
JObj(keys, vals) == [t |-> "obj", s |-> <<>>, keys |-> keys, vals |-> vals]
isArray(x) == x.t = "arr"

\* obj[key] for a parsed JSON value (undefined when the key is absent).
Get(obj, key) ==
  IF obj.t = "obj" /\ \E i \in 1..Len(obj.keys) : obj.keys[i] = key
  THEN obj.vals[CHOOSE i \in 1..Len(obj.keys) : obj.keys[i] = key]
  ELSE JSUndef

\* The three catalog shapes of the same records.
AsArray(recs) == JArr(recs)
AsProducts(recs) == JObj(<< <<"products">> >>, << JArr(recs) >>)
AsMap(recs) == JObj([i \in 1..Len(recs) |-> recs[i].asin.s], recs)

\* lama_index.json on disk: absent, not JSON, or a JSON document.
IndexFile(exists, valid, doc) == [exists |-> exists, valid |-> valid, doc |-> doc]
DefaultIndex == IndexFile(TRUE, TRUE, AsArray(<<recA, recB>>))
IndexFiles ==
  { IndexFile(FALSE, FALSE, JSNull), IndexFile(TRUE, FALSE, JSNull),
    IndexFile(TRUE, TRUE, JSNull), IndexFile(TRUE, TRUE, JObj(<<>>, <<>>)),
    IndexFile(TRUE, TRUE, AsMap(<<recA, recB>>)) }
  \cup { IndexFile(TRUE, TRUE, AsArray(r)) : r \in RecordLists }
  \cup { IndexFile(TRUE, TRUE, AsProducts(r)) : r \in { <<recA, recB>>, <<recZ, recA, recB>> } }

\* Review-text files: name "<asin>_<lang>_<tail>" and content.
BlogName(asin, lang, tail) == asin \o <<"_", lang, "_", tail>>
BlogFile(asin, lang, tail, content) == [name |-> BlogName(asin, lang, tail), content |-> content]
DefaultListing == << BlogFile(<<"A">>, "ES", "blog.txt", <<"textA">>),
                     BlogFile(<<"b">>, "ES", "blog.txt", <<"textB">>) >>
Listings ==
  { <<>>, DefaultListing,
    << BlogFile(<<"A">>, "ES", "blog.txt", <<"textA">>) >>,
    << BlogFile(<<"A">>, "es", "blog.txt", <<"textA">>),
       BlogFile(<<"b">>, "es", "blog.txt", <<"textB">>) >>,
    << BlogFile(<<"a">>, "EN", "BLOG.TXT", <<"textA">>),
       BlogFile(<<"B">>, "EN", "blog.txt", <<"textB">>) >>,
    << BlogFile(<<"A">>, "ES", "blog.txt", <<>>),
       BlogFile(<<"b">>, "ES", "blog.txt", <<"textB">>) >> }

FileSystem(layout, index, listing) == [layout |-> layout, index |-> index, listing |-> listing]

\* Deployments explored: every layout with the default content, every
\* catalog with the default review texts, every listing with and without
\* the service credential.
Deployments(v) ==
  { [fsys |-> FileSystem(l, DefaultIndex, DefaultListing), apiKey |-> TRUE] : l \in Layouts(v) }
  \cup { [fsys |-> FileSystem(DefaultLayout(v), x, DefaultListing), apiKey |-> TRUE] : x \in IndexFiles }
  \cup { [fsys |-> FileSystem(DefaultLayout(v), DefaultIndex, l), apiKey |-> k] :
            l \in Listings, k \in BOOLEAN }

\* ------------------------------------------------------------------------
\* File access
\* ------------------------------------------------------------------------
\* fs.existsSync(dir) for a candidate directory.
existsSync(v, fs, i) == fs.layout[i] # "absent"
isDirectory(v, fs, i) == fs.layout[i] = "dir"

PathKind(v, fs, dir) == fs.layout[CHOOSE i \in 1..Len(candidates(v)) : candidates(v)[i] = dir]

NoDataDirMessage(paths) ==
  <<"No se encontro carpeta 'data'. Probadas rutas: ">> \o join(paths, <<" | ">>)

\* verifymyth.js getDataDir: first candidate that exists.
getDataDir_verifymyth(fs) ==
  LET c == candidates("verifymyth")
      found == {i \in 1..Len(c) : existsSync("verifymyth", fs, i)}
  IN IF found # {}
     THEN Ok(c[CHOOSE i \in found : \A j \in found : i <= j])
     ELSE Throw(NoDataDirMessage(c))

\* Mutant of resolveDataDir: the path left in the cache is the last
\* candidate tried, whatever the path returned.
resolveDataDir_cachesLastTried(fs, cache) ==
  LET c == candidates("part_000")
      found == {i \in 1..Len(c) : existsSync("part_000", fs, i) /\ isDirectory("part_000", fs, i)}
  IN IF cache # <<>> THEN [res |-> Ok(cache), cache |-> cache]
     ELSE IF found # {}
     THEN LET dir == c[CHOOSE i \in found : \A j \in found : i <= j]
          IN [res |-> Ok(dir), cache |-> c[Len(c)]]
     ELSE [res |-> Throw(NoDataDirMessage(c)), cache |-> cache]

\* part_000 resolveDataDir: cached path, else first candidate that is a
\* directory, which is then cached.  Returns the result and the new cache.
resolveDataDir(fs, cache) ==
  LET c == candidates("part_000")
      found == {i \in 1..Len(c) : existsSync("part_000", fs, i) /\ isDirectory("part_000", fs, i)}
  IN IF cache # <<>> THEN [res |-> Ok(cache), cache |-> cache]
     ELSE IF found # {}
     THEN LET dir == c[CHOOSE i \in found : \A j \in found : i <= j]
          IN [res |-> Ok(dir), cache |-> dir]
     ELSE [res |-> Throw(NoDataDirMessage(c)), cache |-> cache]

\* part_001 getDataDir: first candidate that exists; the error lists the
\* paths tried.
getDataDir_part_001(fs) ==
  LET c == DATA_DIR_CANDIDATES
      found == {i \in 1..Len(c) : existsSync("part_001", fs, i)}
  IN IF found # {}
     THEN Ok(c[CHOOSE i \in found : \A j \in found : i <= j])
     ELSE Throw(NoDataDirMessage(c))

\* fs.readFileSync(<dataDir>/lama_index.json) followed by JSON.parse.
ReadIndexJSON(v, fs, dir) ==
  IF PathKind(v, fs, dir) # "dir" THEN Throw(<<"ENOTDIR: not a directory, open ">> \o dir)
  ELSE IF ~fs.index.exists THEN Throw(<<"ENOENT: no such file or directory, open ">> \o dir)
  ELSE IF ~fs.index.valid THEN Throw(<<"Unexpected token in JSON">>)
  ELSE Ok(fs.index.doc)

\* The tail of loadIndex in the POST variants: array, or .products array.
IndexShape(parsed) ==
  IF isArray(parsed) THEN Ok(parsed.s)
  ELSE IF parsed.t = "null" THEN Throw(<<"Cannot read properties of null (reading 'products')">>)
  ELSE IF isArray(Get(parsed, <<"products">>)) THEN Ok(Get(parsed, <<"products">>).s)
  ELSE Throw(<<"Formato inesperado en lama_index.json">>)

loadIndex_verifymyth(fs) ==
  LET d == getDataDir_verifymyth(fs)
  IN IF d.thrown THEN d
     ELSE LET r == ReadIndexJSON("verifymyth", fs, d.value)
          IN IF r.thrown THEN r ELSE IndexShape(r.value)

loadIndex_part_000(fs, cache) ==
  LET d == resolveDataDir(fs, cache)
  IN IF d.res.thrown THEN d
     ELSE LET r == ReadIndexJSON("part_000", fs, d.res.value)
          IN [res |-> IF r.thrown THEN r ELSE IndexShape(r.value), cache |-> d.cache]

\* part_001 loadIndex returns the parsed document whatever its shape.
loadIndex_part_001(fs) ==
  LET d == getDataDir_part_001(fs)
  IN IF d.thrown THEN d
     ELSE IF PathKind("part_001", fs, d.value) # "dir" \/ ~fs.index.exists
     THEN Throw(<<"No se ha encontrado lama_index.json en ">> \o d.value)
     ELSE ReadIndexJSON("part_001", fs, d.value)

\* A file of the resolved data directory by exact name (<<>> when absent).
FilesNamed(v, fs, dir, name) ==
  IF PathKind(v, fs, dir) # "dir" THEN <<>>
  ELSE SelectSeq(fs.listing, LAMBDA f : f.name = name)

\* verifymyth.js loadBlog(asin, "ES"): <asin>_ES_blog.txt, then <asin>_es_blog.txt.
loadBlog_verifymyth(fs, asin) ==
  LET d == getDataDir_verifymyth(fs)
      upper == toUpperCase(<<"ES">>)
      names == << asin \o <<"_">> \o upper \o <<"_", "blog.txt">>,
                  asin \o <<"_">> \o toLowerCase(upper) \o <<"_", "blog.txt">> >>
      hits == {i \in 1..Len(names) : FilesNamed("verifymyth", fs, d.value, names[i]) # <<>>}
  IN IF d.thrown THEN d
     ELSE IF hits # {}
     THEN Ok(FilesNamed("verifymyth", fs, d.value,
                        names[CHOOSE i \in hits : \A j \in hits : i <= j])[1].content)
     ELSE Throw(<<"No se encontro blog para ASIN ">> \o asin \o <<". Probados nombres: ">>
                \o join(names, <<" | ">>))

\* part_000 loadBlogFile(asin): first file "<ASIN>_...BLOG.TXT" ignoring
\* case; "" (and a console.error) when there is none.
loadBlogFile(fs, cache, asin) ==
  LET d == resolveDataDir(fs, cache)
      asinNorm == toUpperCase(Trim(asin))
      files == IF PathKind("part_000", fs, d.res.value) = "dir" THEN fs.listing ELSE <<>>
      match == {i \in 1..Len(files) :
                  /\ startsWith(toUpperCase(files[i].name), asinNorm \o <<"_">>)
                  /\ endsWith(toUpperCase(files[i].name), <<"BLOG.TXT">>)}
  IN IF d.res.thrown THEN [res |-> d.res, cache |-> d.cache, log |-> <<>>]
     ELSE IF match = {}
     THEN [res |-> Ok(<<>>), cache |-> d.cache, log |-> <<"No se encontro fichero de blog">>]
     ELSE [res |-> Ok(files[CHOOSE i \in match : \A j \in match : i <= j].content),
           cache |-> d.cache, log |-> <<>>]

\* part_001 loadBlog(asin, "ES"): exactly <asin>_ES_blog.txt.
loadBlog_part_001(fs, asin) ==
  LET d == getDataDir_part_001(fs)
      filename == asin \o <<"_", "ES", "_", "blog.txt">>
  IN IF d.thrown THEN d
     ELSE IF FilesNamed("part_001", fs, d.value, filename) = <<>>
     THEN Throw(<<"No se ha encontrado el blog ">> \o filename
                \o <<". Asegurate de que existe en la carpeta data.">>)
     ELSE Ok(FilesNamed("part_001", fs, d.value, filename)[1].content)

\* ------------------------------------------------------------------------
\* Text-Completion Service (Gemini)
\* ------------------------------------------------------------------------
Part(text) == [text |-> text]
Content(parts) == [t |-> "obj", s |-> <<>>, parts |-> parts]
Candidate(content) == [content |-> content]
Data(cands) == [t |-> "obj", s |-> <<>>, candidates |-> cands]

\* Bodies the service may answer with: not JSON, or a JSON document.
ServiceBody(valid, data) == [valid |-> valid, data |-> data]
ServiceBodies ==
  { ServiceBody(FALSE, JSNull), ServiceBody(TRUE, JSNull),
    ServiceBody(TRUE, Data(JSUndef)), ServiceBody(TRUE, Data(Arr(<<>>))),
    ServiceBody(TRUE, Data(Arr(<<Candidate(JSUndef)>>))),
    ServiceBody(TRUE, Data(Arr(<<Candidate(Content(JSUndef))>>))) }
  \cup { ServiceBody(TRUE, Data(Arr(<<Candidate(Content(Arr(ps)))>>))) :
           ps \in { <<>>, <<Part(Str(<<"h", "i">>))>>, <<Part(Str(<<" ">>))>>,
                    <<Part(JSUndef)>>, <<Part(Str(<<>>)), Part(Str(<<"h", "i">>))>> } }

\* parts.map((p) => p.text || "").join(" ").trim()
JoinParts(parts) ==
  Trim(join([i \in 1..Len(parts) |-> OrElse(parts[i].text, Str(<<>>)).s], <<" ">>))

EmptyAnswer == Throw(<<"Gemini devolvio una respuesta vacia">>)

\* verifymyth.js callGemini, after res.json(): the && chain, then !text.
ExtractText_verifymyth(data) ==
  IF ~Truthy(data) \/ ~Truthy(data.candidates) \/ data.candidates.s = <<>> THEN EmptyAnswer
  ELSE LET c == data.candidates.s[1].content
       IN IF ~Truthy(c) \/ ~Truthy(c.parts) THEN EmptyAnswer
          ELSE IF JoinParts(c.parts.s) = <<>> THEN EmptyAnswer
          ELSE Ok(JoinParts(c.parts.s))

\* part_000 callGemini, after res.json(): parts[0].text, then (text || "").trim().
ExtractText_part_000(data) ==
  IF ~Truthy(data) \/ ~Truthy(data.candidates) \/ data.candidates.s = <<>> THEN Ok(<<>>)
  ELSE LET c == data.candidates.s[1].content
       IN IF ~Truthy(c) \/ ~Truthy(c.parts) \/ c.parts.s = <<>> THEN Ok(<<>>)
          ELSE Ok(Trim(OrElse(c.parts.s[1].text, Str(<<>>)).s))

\* part_001 callGemini, after res.ok: data.candidates is read unguarded and
\* content.parts.map is called unguarded.
ExtractText_part_001(data) ==
  IF data.t = "null" THEN Throw(<<"Cannot read properties of null (reading 'candidates')">>)
  ELSE IF ~Truthy(data.candidates) \/ data.candidates.s = <<>> THEN EmptyAnswer
  ELSE LET c == data.candidates.s[1].content
       IN IF ~Truthy(c) THEN EmptyAnswer
          ELSE IF c.parts.t = "undef"
          THEN Throw(<<"Cannot read properties of undefined (reading 'map')">>)
          ELSE IF JoinParts(c.parts.s) = <<>> THEN EmptyAnswer
          ELSE Ok(JoinParts(c.parts.s))

ExtractText(v, data) ==
  CASE v = "verifymyth" -> ExtractText_verifymyth(data)
    [] v = "part_000" -> ExtractText_part_000(data)
    [] v = "part_001" -> ExtractText_part_001(data)

\* callGemini from the resolved fetch to its result: ok is res.ok, body
\* the response body.  The POST variants read res.text() when !res.ok and
\* res.json() otherwise; part_001 reads res.json() before testing res.ok.
callGemini(v, ok, body) ==
  IF v \in PostVariants
  THEN IF ~ok THEN Throw(<<"Error Gemini: ", "body">>)
       ELSE IF ~body.valid THEN Throw(<<"Unexpected token in JSON">>)
       ELSE ExtractText(v, body.data)
  ELSE IF ~body.valid THEN Throw(<<"Unexpected token in JSON">>)
       ELSE IF ~ok THEN Throw(<<"Error Gemini: ", "body">>)
       ELSE ExtractText(v, body.data)

\* callGemini before the fetch: the credential check.
MissingKeyMessage(v) ==
  IF v = "part_001"
  THEN <<"No se ha configurado GEMINI_API_KEY en las variables de entorno.">>
  ELSE <<"Falta GEMINI_API_KEY en variables de entorno">>

\* ------------------------------------------------------------------------
\* Requests and responses
\* ------------------------------------------------------------------------
Fields(mode, asinA, asinB) == [t |-> "obj", s |-> <<>>, mode |-> mode, asinA |-> asinA, asinB |-> asinB]
NoFields == Fields(JSUndef, JSUndef, JSUndef)

\* event.body: absent, text that is not JSON, the text "null", or an object.
Body(raw, fields) == [raw |-> raw, fields |-> fields]

\* JSON.parse(event.body || "{}")
JSONparse(body) ==
  CASE body.raw = "undef" -> Ok(NoFields)
    [] body.raw = "garbage" -> Throw(<<"Unexpected token in JSON">>)
    [] body.raw = "null" -> Ok(JSNull)
    [] body.raw = "object" -> Ok(body.fields)

\* JSON.stringify of a record: keys whose value is undefined are dropped.
Stringify(rec) == [k \in {f \in DOMAIN rec : rec[f] # JSUndef} |-> rec[k]]

\* The light projection of index mode.
lite(p) ==
  [asin |-> p.asin, nombre_producto |-> p.nombre_producto, market |-> p.market,
   categoria_inferida |-> p.categoria_inferida, n_reviews |-> p.n_reviews,
   mean_stars |-> p.mean_stars, tags_tematica |-> OrElse(p.tags_tematica, Arr(<<>>))]

\* Mutant of mapLite: records without tags are left out of the index.
mapLite_skipsUntagged(products) ==
  LET tagged == SelectSeq(products, LAMBDA p : Truthy(p.tags_tematica))
  IN [i \in 1..Len(tagged) |-> Stringify(lite(tagged[i]))]

\* products.map(lite)
mapLite(products) == [i \in 1..Len(products) |-> Stringify(lite(products[i]))]

\* Array.prototype.find: the first element among those at the indices
\* hits that satisfy the test, as <<x>>, or <<>> for undefined.
Find(arr, hits) ==
  IF hits = {} THEN <<>> ELSE <<arr[CHOOSE i \in hits : \A j \in hits : i <= j]>>

\* products.find((p) => (p.asin || "").toUpperCase() === asin.toUpperCase())
findProduct(products, asin) ==
  Find(products, {i \in 1..Len(products) :
                    toUpperCase(OrElse(products[i].asin, Str(<<>>)).s) = toUpperCase(asin)})

\* arr.find((x) => x.asin === asin || x.ASIN === asin)
findByAsin(arr, asin) ==
  Find(arr, {i \in 1..Len(arr) : arr[i].asin = Str(asin) \/ arr[i].ASIN = Str(asin)})

\* part_001 findProductMeta(indexData, asin): <<record>> or <<>> for null.
findProductMeta(indexData, asin) ==
  IF asin = <<>> \/ ~Truthy(indexData) THEN <<>>
  ELSE IF isArray(indexData)
  THEN findByAsin(indexData.s, asin)
  ELSE IF \E i \in 1..Len(indexData.keys) : indexData.keys[i] = asin
  THEN <<Get(indexData, asin)>>
  ELSE IF isArray(Get(indexData, <<"products">>))
  THEN findByAsin(Get(indexData, <<"products">>).s, asin)
  ELSE <<>>

ErrorBody(msg) == [success |-> FALSE, error |-> msg]
Response(status, headers, body) == [statusCode |-> status, headers |-> headers, body |-> body]

\* The return statements of the handlers.
Preflight(v) == Response(IF v = "part_001" THEN 200 ELSE 204, corsHeaders(v), [raw |-> <<>>])
MethodNotAllowed(v) == Response(405, corsHeaders(v), ErrorBody(<<"Metodo no permitido">>))
\* Mutant of MissingMode: the validation error is reported with a status
\* code of its own and no success flag.
MissingMode_unprocessable(v) ==
  Response(422, corsHeaders(v), [error |-> Str(<<"Falta 'mode' en la peticion.">>)])

MissingMode(v) == Response(400, corsHeaders(v), ErrorBody(<<"Falta 'mode' en la peticion.">>))
IndexOk(v, products) ==
  Response(200, corsHeaders(v), [success |-> TRUE, products |-> mapLite(products)])
MissingAsin(v) ==
  Response(400, corsHeaders(v), ErrorBody(<<"Faltan 'asinA' y/o 'asinB' en la peticion.">>))
AsinNotFound(v) ==
  Response(404, corsHeaders(v),
           ErrorBody(<<"No encontramos uno o ambos ASIN en lama_index.json. Revisa el indice.">>))
MetricsOk(v, prodA, prodB, analysis) ==
  Response(200, corsHeaders(v),
           [success |-> TRUE, products |-> <<Stringify(prodA), Stringify(prodB)>>,
            analysis |-> analysis])
BlogsNotFound_verifymyth(v) ==
  Response(404, corsHeaders(v),
           ErrorBody(<<"No se encontraron los blogs para uno o ambos productos. Revisa los archivos *_ES_blog.txt.">>))
BlogsNotFound_part_000(v, missingAsins) ==
  Response(404, corsHeaders(v),
           ErrorBody(<<"No se encontraron los blogs para los siguientes ASIN: ">>
                     \o join(missingAsins, <<", ">>)
                     \o <<". Asegurate de que existan archivos <ASIN>_XX_blog.txt en la carpeta 'data' de la funcion.">>))
\* Mutant of NarrativeFailed: a failed narrative call degrades like metrics
\* mode and is answered 200 with a null text.
NarrativeFailed_degrades(v) ==
  Response(200, corsHeaders(v), [success |-> TRUE, text |-> JSNull])

NarrativeFailed(v) ==
  Response(500, corsHeaders(v), ErrorBody(<<"Error generando la opinion final de la IA.">>))
NarrativeOk(v, text) == Response(200, corsHeaders(v), [success |-> TRUE, text |-> Str(text)])
UnknownMode(v) ==
  Response(400, corsHeaders(v),
           ErrorBody(<<"Modo no reconocido. Usa 'index', 'metrics' o 'narrative'.">>))
\* Mutant of InternalError: the catch-all answer forgets the CORS headers.
InternalError_noCors(v, message) ==
  Response(500, [contentType |-> "application/json"],
           ErrorBody(<<"Error interno en verifymyth: ">> \o message))

InternalError(v, message) ==
  Response(500, corsHeaders(v), ErrorBody(<<"Error interno en verifymyth: ">> \o message))
IndexOk_part_001(v, length) ==
  Response(200, corsHeaders(v), [success |-> TRUE, mode |-> "index", entries |-> length])
MetricsOk_part_001(v, productA, productB, quickSummary) ==
  Response(200, corsHeaders(v),
           [success |-> TRUE, mode |-> "metrics",
            products |-> [A |-> Stringify(productA), B |-> Stringify(productB)],
            analysis |-> [quickSummary |-> Str(quickSummary)],
            quickSummary |-> Str(quickSummary)])
NarrativeOk_part_001(v, finalOpinion) ==
  Response(200, corsHeaders(v),
           [success |-> TRUE, mode |-> "narrative", finalOpinion |-> Str(finalOpinion),
            analysis |-> [finalOpinion |-> Str(finalOpinion)]])

\* ------------------------------------------------------------------------
\* The handlers, up to their first await
\* ------------------------------------------------------------------------
\* Local variables of one handler invocation that live across the await.
Locals(mode, asinA, asinB, prodA, prodB, blogA, blogB) ==
  [mode |-> mode, asinA |-> asinA, asinB |-> asinB, prodA |-> prodA, prodB |-> prodB,
   blogA |-> blogA, blogB |-> blogB]
NoLocals == Locals(JSUndef, <<>>, <<>>, <<>>, <<>>, <<>>, <<>>)

\* The prompt sent to the service embeds the records and, in narrative
\* mode, the two review texts.
Prompt(l) == [mode |-> l.mode.s, prodA |-> l.prodA, prodB |-> l.prodB,
              blogA |-> l.blogA, blogB |-> l.blogB]

\* How a synchronous stretch of a handler ends: it returns a response,
\* suspends at fetch(), or throws.
Return(resp, l, lg, cache) ==
  [kind |-> "return", response |-> <<resp>>, locals |-> l, log |-> lg, cache |-> cache,
   message |-> <<>>]
Await(l, lg, cache) ==
  [kind |-> "await", response |-> <<>>, locals |-> l, log |-> lg, cache |-> cache,
   message |-> <<>>]
Raise(message, l, lg, cache) ==
  [kind |-> "throw", response |-> <<>>, locals |-> l, log |-> lg, cache |-> cache,
   message |-> message]

NotAFunction == <<"(intermediate value).trim is not a function">>

\* loadIndex of a POST variant, with the cache it leaves.
loadIndex_post(v, fs, cache) ==
  IF v = "part_000" THEN loadIndex_part_000(fs, cache)
  ELSE [res |-> loadIndex_verifymyth(fs), cache |-> cache]

\* Mutant of narrative_verifymyth: the service is called even when a review
\* text could not be loaded.
narrative_verifymyth_callsAnyway(v, fs, key, l, cache) ==
  LET a == loadBlog_verifymyth(fs, l.prodA[1].asin.s)
      b == loadBlog_verifymyth(fs, l.prodB[1].asin.s)
      l2 == IF a.thrown \/ b.thrown THEN l
            ELSE [l EXCEPT !.blogA = a.value, !.blogB = b.value]
  IN IF ~key
     THEN Return(NarrativeFailed(v), l2, <<"Error en Gemini narrative">>, cache)
     ELSE Await(l2, <<>>, cache)

\* Narrative mode of verifymyth.js up to callGemini: both blogs loaded in
\* one try; any throw is answered 404.
narrative_verifymyth(v, fs, key, l, cache) ==
  LET a == loadBlog_verifymyth(fs, l.prodA[1].asin.s)
      b == loadBlog_verifymyth(fs, l.prodB[1].asin.s)
      l2 == [l EXCEPT !.blogA = a.value, !.blogB = b.value]
  IN IF a.thrown \/ b.thrown
     THEN Return(BlogsNotFound_verifymyth(v), l, <<"Error leyendo blogs">>, cache)
     ELSE IF ~key
     THEN Return(NarrativeFailed(v), l2, <<"Error en Gemini narrative">>, cache)
     ELSE Await(l2, <<>>, cache)

\* Narrative mode of part_000 up to callGemini: loadBlogFile returns ""
\* for a missing file and the handler answers 404 naming the ASINs.
narrative_part_000(v, fs, key, l, cache) ==
  LET a == loadBlogFile(fs, cache, l.prodA[1].asin.s)
      b == loadBlogFile(fs, a.cache, l.prodB[1].asin.s)
      missingAsins == (IF a.res.value = <<>> THEN <<l.prodA[1].asin.s>> ELSE <<>>)
                      \o (IF b.res.value = <<>> THEN <<l.prodB[1].asin.s>> ELSE <<>>)
      l2 == [l EXCEPT !.blogA = a.res.value, !.blogB = b.res.value]
  IN IF a.res.thrown THEN Raise(a.res.message, l, a.log, a.cache)
     ELSE IF b.res.thrown THEN Raise(b.res.message, l, a.log \o b.log, b.cache)
     ELSE IF missingAsins # <<>>
     THEN Return(BlogsNotFound_part_000(v, missingAsins), l, a.log \o b.log, b.cache)
     ELSE IF ~key
     THEN Return(NarrativeFailed(v), l2, <<"Error en Gemini narrative">>, b.cache)
     ELSE Await(l2, <<>>, b.cache)

\* Metrics mode of the POST variants up to callGemini: a throw of
\* callGemini is caught and the analysis stays null.
metrics_post(v, key, l, cache) ==
  IF ~key
  THEN Return(MetricsOk(v, l.prodA[1], l.prodB[1], JSNull), l, <<"Error en Gemini metrics">>, cache)
  ELSE Await(l, <<>>, cache)

\* The body of the try block of the POST variants.
tryBlock_post(v, ev, fs, key, cache) ==
  LET parsed == JSONparse(ev.body)
      body == parsed.value
      mode == body.mode
      rawA == OrElse(body.asinA, Str(<<>>))
      rawB == OrElse(body.asinB, Str(<<>>))
      asinA == Trim(rawA.s)
      asinB == Trim(rawB.s)
      idx == loadIndex_post(v, fs, cache)
      products == idx.res.value
      prodA == findProduct(products, asinA)
      prodB == findProduct(products, asinB)
      l == Locals(mode, asinA, asinB, prodA, prodB, <<>>, <<>>)
  IN IF parsed.thrown THEN Raise(parsed.message, NoLocals, <<>>, cache)
     ELSE IF body.t = "null"
     THEN Raise(<<"Cannot read properties of null (reading 'mode')">>, NoLocals, <<>>, cache)
     ELSE IF rawA.t # "str" \/ rawB.t # "str" THEN Raise(NotAFunction, NoLocals, <<>>, cache)
     ELSE IF ~Truthy(mode)
     THEN Return(MissingMode(v), Locals(mode, asinA, asinB, <<>>, <<>>, <<>>, <<>>), <<>>, cache)
     ELSE IF idx.res.thrown
     THEN Raise(idx.res.message, Locals(mode, asinA, asinB, <<>>, <<>>, <<>>, <<>>), <<>>, idx.cache)
     ELSE IF mode = Str(<<"index">>)
     THEN Return(IndexOk(v, products), Locals(mode, asinA, asinB, <<>>, <<>>, <<>>, <<>>),
                 <<>>, idx.cache)
     ELSE IF asinA = <<>> \/ asinB = <<>>
     THEN Return(MissingAsin(v), Locals(mode, asinA, asinB, <<>>, <<>>, <<>>, <<>>),
                 <<>>, idx.cache)
     ELSE IF prodA = <<>> \/ prodB = <<>> THEN Return(AsinNotFound(v), l, <<>>, idx.cache)
     ELSE IF mode = Str(<<"metrics">>) THEN metrics_post(v, key, l, idx.cache)
     ELSE IF mode = Str(<<"narrative">>)
     THEN IF v = "part_000" THEN narrative_part_000(v, fs, key, l, idx.cache)
          ELSE narrative_verifymyth(v, fs, key, l, idx.cache)
     ELSE Return(UnknownMode(v), l, <<>>, idx.cache)

\* Mutant of catchAll: the error is not caught.
catchAll_rethrows(v, out) == out

\* catch (err) of the handlers: log and answer 500 with the message.
catchAll(v, out) ==
  IF out.kind = "throw"
  THEN Return(InternalError(v, out.message), out.locals,
              out.log \o <<"Error general verifymyth">>, out.cache)
  ELSE out

\* exports.handler of the POST variants, up to the first await.
handler_post(v, ev, fs, key, cache) ==
  IF ev.httpMethod = "OPTIONS" THEN Return(Preflight(v), NoLocals, <<>>, cache)
  ELSE IF ev.httpMethod # "POST" THEN Return(MethodNotAllowed(v), NoLocals, <<>>, cache)
  ELSE catchAll(v, tryBlock_post(v, ev, fs, key, cache))

NotFoundMessage_part_001(asinA, asinB) ==
  <<"No se encontraron datos Lama para uno o ambos productos (">> \o asinA \o <<", ">>
  \o asinB \o <<").">>

\* Metrics and narrative modes of part_001 up to callGemini.
compare_part_001(v, fs, key, mode, asinA, asinB, cache) ==
  LET idx == loadIndex_part_001(fs)
      productA == findProductMeta(idx.value, asinA)
      productB == findProductMeta(idx.value, asinB)
      l == Locals(Str(mode), asinA, asinB, productA, productB, <<>>, <<>>)
      blogA == loadBlog_part_001(fs, asinA)
      blogB == loadBlog_part_001(fs, asinB)
      l2 == IF mode = <<"narrative">> THEN [l EXCEPT !.blogA = blogA.value, !.blogB = blogB.value]
            ELSE l
      l0 == Locals(Str(mode), asinA, asinB, <<>>, <<>>, <<>>, <<>>)
  IN IF idx.thrown THEN Raise(idx.message, l0, <<>>, cache)
     ELSE IF productA = <<>> \/ productB = <<>>
     THEN Raise(NotFoundMessage_part_001(asinA, asinB), l, <<>>, cache)
     ELSE IF mode = <<"narrative">> /\ blogA.thrown THEN Raise(blogA.message, l, <<>>, cache)
     ELSE IF mode = <<"narrative">> /\ blogB.thrown THEN Raise(blogB.message, l, <<>>, cache)
     ELSE IF ~key THEN Raise(MissingKeyMessage(v), l2, <<>>, cache)
     ELSE Await(l2, <<>>, cache)

\* Index mode of part_001: the number of entries of the document.
index_part_001(v, fs, l, cache) ==
  LET indexData == loadIndex_part_001(fs)
  IN IF indexData.thrown THEN Raise(indexData.message, l, <<>>, cache)
     ELSE IF isArray(indexData.value)
     THEN Return(IndexOk_part_001(v, Len(indexData.value.s)), l, <<>>, cache)
     ELSE IF indexData.value.t = "null"
     THEN Raise(<<"Cannot convert undefined or null to object">>, l, <<>>, cache)
     ELSE Return(IndexOk_part_001(v, Len(indexData.value.keys)), l, <<>>, cache)

\* The body of the try block of part_001.
tryBlock_part_001(v, fs, key, mode, asinA, asinB, cache) ==
  LET l0 == Locals(Str(mode), asinA, asinB, <<>>, <<>>, <<>>, <<>>)
  IN IF asinA = <<>> \/ asinB = <<>>
     THEN Raise(<<"Debes enviar asinA y asinB en la query (por ejemplo ?mode=metrics&asinA=XXX&asinB=YYY).">>,
                l0, <<>>, cache)
     ELSE IF mode = <<"index">> THEN index_part_001(v, fs, l0, cache)
     ELSE IF mode \in {<<"metrics">>, <<"narrative">>}
     THEN compare_part_001(v, fs, key, mode, asinA, asinB, cache)
     ELSE Return(UnknownMode(v), l0, <<>>, cache)

\* exports.handler of part_001, up to the first await.
handler_part_001(v, ev, fs, key, cache) ==
  LET params == OrElse(ev.queryStringParameters, NoFields)
      mode == toLowerCase(OrElse(params.mode, Str(<<"metrics">>)).s)
      asinA == Trim(OrElse(params.asinA, Str(<<>>)).s)
      asinB == Trim(OrElse(params.asinB, Str(<<>>)).s)
  IN IF ev.httpMethod = "OPTIONS" THEN Return(Preflight(v), NoLocals, <<>>, cache)
     ELSE catchAll(v, tryBlock_part_001(v, fs, key, mode, asinA, asinB, cache))

handler(v, ev, fs, key, cache) ==
  IF v = "part_001" THEN handler_part_001(v, ev, fs, key, cache)
  ELSE handler_post(v, ev, fs, key, cache)

\* ------------------------------------------------------------------------
\* The handlers, after callGemini settles
\* ------------------------------------------------------------------------
\* Mutant of resume_post: a failed call is a hard failure in metrics mode
\* as well.
resume_post_hardFailure(v, l, g, cache) ==
  IF g.thrown THEN Return(NarrativeFailed(v), l, <<"Error en Gemini">>, cache)
  ELSE IF l.mode = Str(<<"metrics">>)
  THEN Return(MetricsOk(v, l.prodA[1], l.prodB[1], Str(g.value)), l, <<>>, cache)
  ELSE Return(NarrativeOk(v, g.value), l, <<>>, cache)

\* The POST variants: metrics degrades to analysis null, narrative fails.
resume_post(v, l, g, cache) ==
  IF l.mode = Str(<<"metrics">>)
  THEN IF g.thrown
       THEN Return(MetricsOk(v, l.prodA[1], l.prodB[1], JSNull), l,
                   <<"Error en Gemini metrics">>, cache)
       ELSE Return(MetricsOk(v, l.prodA[1], l.prodB[1], Str(g.value)), l, <<>>, cache)
  ELSE IF g.thrown
       THEN Return(NarrativeFailed(v), l, <<"Error en Gemini narrative">>, cache)
       ELSE Return(NarrativeOk(v, g.value), l, <<>>, cache)

\* part_001: a throw of callGemini reaches the handler's catch.
resume_part_001(v, l, g, cache) ==
  IF g.thrown THEN Raise(g.message, l, <<>>, cache)
  ELSE IF l.mode = Str(<<"metrics">>)
  THEN Return(MetricsOk_part_001(v, l.prodA[1], l.prodB[1], g.value), l, <<>>, cache)
  ELSE Return(NarrativeOk_part_001(v, g.value), l, <<>>, cache)

resume(v, l, g, cache) ==
  IF v = "part_001" THEN catchAll(v, resume_part_001(v, l, g, cache))
  ELSE catchAll(v, resume_post(v, l, g, cache))

\* ------------------------------------------------------------------------
\* Inbound events
\* ------------------------------------------------------------------------
Event(method, body, query) == [httpMethod |-> method, body |-> body, queryStringParameters |-> query]
NoEvent == Event("", Body("undef", NoFields), JSNull)

ModeInputs == {JSUndef, Str(<<"index">>), Str(<<"metrics">>), Str(<<"narrative">>),
               Str(<<"METRICS">>), Str(<<"bogus">>)}
AsinStrings == {JSUndef, Str(<<>>), Str(<<" ">>), Str(<<"A">>), Str(<<"a">>), Str(<<"b">>),
                Str(<<" ", "B">>), Str(<<"Z">>)}

Bodies == {Body("undef", NoFields), Body("garbage", NoFields), Body("null", NoFields)}
          \cup {Body("object", Fields(m, a, b)) : m \in ModeInputs, a \in AsinStrings, b \in AsinStrings}
          \cup {Body("object", Fields(m, Num(<<"7">>), b)) : m \in ModeInputs, b \in {JSUndef, Str(<<"b">>)}}
          \cup {Body("object", Fields(m, Str(<<"A">>), Num(<<"7">>))) : m \in ModeInputs}
Queries == {JSNull} \cup {Fields(m, a, b) : m \in ModeInputs, a \in AsinStrings, b \in AsinStrings}

Events(v) ==
  IF v \in PostVariants
  THEN {Event("OPTIONS", Body("undef", NoFields), JSNull), Event("GET", Body("undef", NoFields), JSNull)}
       \cup {Event("POST", b, JSNull) : b \in Bodies}
  ELSE {Event("OPTIONS", Body("undef", NoFields), JSNull),
        Event("POST", Body("undef", NoFields), Fields(Str(<<"metrics">>), Str(<<"A">>), Str(<<"b">>)))}
       \cup {Event("GET", Body("undef", NoFields), q) : q \in Queries}

\* ------------------------------------------------------------------------
\* State machine
\* ------------------------------------------------------------------------
\* What fetch() gave an invocation: nothing yet, a rejection, a response
\* whose body is still awaited, or a response whose body was read.
Res(state, ok, body) == [state |-> state, ok |-> ok, body |-> body]
NoRes == Res("none", FALSE, ServiceBody(FALSE, JSNull))

\* Invocation slots of the process; Spec runs one invocation at a time.
Slots == {1, 2}
SeqSlots == {1}

Init ==
  /\ variant \in Variants
  /\ \E d \in Deployments(variant) : fsys = d.fsys /\ apiKey = d.apiKey
  /\ cachedDataDir = <<>>
  /\ pc = [r \in Slots |-> "idle"]
  /\ event = [r \in Slots |-> NoEvent]
  /\ locals = [r \in Slots |-> NoLocals]
  /\ fetches = [r \in Slots |-> <<>>]
  /\ res = [r \in Slots |-> NoRes]
  /\ log = [r \in Slots |-> <<>>]
  /\ response = [r \in Slots |-> <<>>]

\* The effect of a synchronous stretch of invocation r that ended in out.
Settle(r, out) ==
  /\ pc' = [pc EXCEPT ![r] = CASE out.kind = "return" -> "done"
                               [] out.kind = "await" -> "fetch"
                               [] out.kind = "throw" -> "rejected"]
  /\ response' = [response EXCEPT ![r] = out.response]
  /\ locals' = [locals EXCEPT ![r] = out.locals]
  /\ log' = [log EXCEPT ![r] = log[r] \o out.log]
  /\ fetches' = [fetches EXCEPT ![r] = IF out.kind = "await"
                                       THEN Append(fetches[r], Prompt(out.locals))
                                       ELSE fetches[r]]
  /\ cachedDataDir' = out.cache

\* The runtime invokes the handler with event ev; it runs to its first
\* await or to its return.
Receive(r) ==
  /\ pc[r] = "idle"
  /\ \E ev \in Events(variant) :
       /\ event' = [event EXCEPT ![r] = ev]
       /\ Settle(r, handler(variant, ev, fsys, apiKey, cachedDataDir))
  /\ UNCHANGED <<variant, fsys, apiKey, res>>

\* fetch() rejects (network error).
FetchRejects(r) ==
  /\ pc[r] = "fetch"
  /\ res' = [res EXCEPT ![r] = Res("rejected", FALSE, NoRes.body)]
  /\ Settle(r, resume(variant, locals[r], Throw(<<"fetch failed">>), cachedDataDir))
  /\ UNCHANGED <<variant, fsys, apiKey, event>>

\* fetch() resolves with a response whose res.ok is ok; callGemini then
\* awaits the body.
FetchResolves(r) ==
  /\ pc[r] = "fetch"
  /\ pc' = [pc EXCEPT ![r] = "body"]
  /\ \E ok \in BOOLEAN : res' = [res EXCEPT ![r] = Res("resolved", ok, NoRes.body)]
  /\ UNCHANGED <<variant, fsys, apiKey, cachedDataDir, event, locals, fetches, log, response>>

\* res.text() / res.json() settles and the handler runs to its return.
BodySettles(r) ==
  /\ pc[r] = "body"
  /\ \E body \in ServiceBodies :
       /\ res' = [res EXCEPT ![r] = Res("read", res[r].ok, body)]
       /\ Settle(r, resume(variant, locals[r], callGemini(variant, res[r].ok, body), cachedDataDir))
  /\ UNCHANGED <<variant, fsys, apiKey, event>>

\* The runtime takes the response (or the rejection) of invocation r.
Deliver(r) ==
  /\ pc[r] \in {"done", "rejected"}
  /\ pc' = [pc EXCEPT ![r] = "idle"]
  /\ event' = [event EXCEPT ![r] = NoEvent]
  /\ locals' = [locals EXCEPT ![r] = NoLocals]
  /\ fetches' = [fetches EXCEPT ![r] = <<>>]
  /\ res' = [res EXCEPT ![r] = NoRes]
  /\ log' = [log EXCEPT ![r] = <<>>]
  /\ response' = [response EXCEPT ![r] = <<>>]
  /\ UNCHANGED <<variant, fsys, apiKey, cachedDataDir>>

Next ==
  \E r \in SeqSlots :
    \/ Receive(r)
    \/ FetchRejects(r)
    \/ FetchResolves(r)
    \/ BodySettles(r)
    \/ Deliver(r)

Spec == Init /\ [][Next]_vars

\* ------------------------------------------------------------------------
\* Concurrent invocations
\* ------------------------------------------------------------------------
\* The runtime may start an invocation while another one is suspended at
\* fetch() or at the read of the body: both slots run, interleaved at the
\* awaits.  The deployments, events and service bodies are a selection of
\* those of Spec.
ConcLayouts(v) ==
  { DefaultLayout(v),
    [i \in 1..Len(candidates(v)) |-> "absent"],
    [i \in 1..Len(candidates(v)) |-> IF i = 1 THEN "file" ELSE IF i = 2 THEN "dir" ELSE "absent"] }
ConcListings == { DefaultListing, << BlogFile(<<"A">>, "ES", "blog.txt", <<"textA">>) >> }
ConcDeployments(v) ==
  { [fsys |-> FileSystem(l, DefaultIndex, b), apiKey |-> k] :
      l \in ConcLayouts(v), b \in ConcListings, k \in BOOLEAN }

ConcFields ==
  { Fields(Str(<<"index">>), JSUndef, JSUndef),
    Fields(Str(<<"metrics">>), Str(<<"A">>), Str(<<"b">>)),
    Fields(Str(<<"metrics">>), Str(<<"A">>), Str(<<"Z">>)),
    Fields(Str(<<"narrative">>), Str(<<"A">>), Str(<<"b">>)),
    Fields(Str(<<"narrative">>), Str(<<"A">>), Str(<<"A">>)),
    Fields(Str(<<"bogus">>), Str(<<"A">>), Str(<<"b">>)) }
ConcEvents(v) ==
  IF v \in PostVariants
  THEN {Event("OPTIONS", Body("undef", NoFields), JSNull), Event("POST", Body("garbage", NoFields), JSNull)}
       \cup {Event("POST", Body("object", f), JSNull) : f \in ConcFields}
  ELSE {Event("OPTIONS", Body("undef", NoFields), JSNull)}
       \cup {Event("GET", Body("undef", NoFields), q) : q \in ConcFields}
ConcServiceBodies ==
  { ServiceBody(FALSE, JSNull), ServiceBody(TRUE, Data(Arr(<<>>))),
    ServiceBody(TRUE, Data(Arr(<<Candidate(Content(Arr(<<Part(Str(<<"h", "i">>))>>)))>>))) }

InitConc ==
  /\ variant \in Variants
  /\ \E d \in ConcDeployments(variant) : fsys = d.fsys /\ apiKey = d.apiKey
  /\ cachedDataDir = <<>>
  /\ pc = [r \in Slots |-> "idle"]
  /\ event = [r \in Slots |-> NoEvent]
  /\ locals = [r \in Slots |-> NoLocals]
  /\ fetches = [r \in Slots |-> <<>>]
  /\ res = [r \in Slots |-> NoRes]
  /\ log = [r \in Slots |-> <<>>]
  /\ response = [r \in Slots |-> <<>>]

ReceiveConc(r) ==
  /\ pc[r] = "idle"
  /\ \E ev \in ConcEvents(variant) :
       /\ event' = [event EXCEPT ![r] = ev]
       /\ Settle(r, handler(variant, ev, fsys, apiKey, cachedDataDir))
  /\ UNCHANGED <<variant, fsys, apiKey, res>>

BodySettlesConc(r) ==
  /\ pc[r] = "body"
  /\ \E body \in ConcServiceBodies :
       /\ res' = [res EXCEPT ![r] = Res("read", res[r].ok, body)]
       /\ Settle(r, resume(variant, locals[r], callGemini(variant, res[r].ok, body), cachedDataDir))
  /\ UNCHANGED <<variant, fsys, apiKey, event>>

NextConc ==
  \E r \in Slots :
    \/ ReceiveConc(r)
    \/ FetchRejects(r)
    \/ FetchResolves(r)
    \/ BodySettlesConc(r)
    \/ Deliver(r)

SpecConc == InitConc /\ [][NextConc]_vars

\* ------------------------------------------------------------------------
\* Properties
\* ------------------------------------------------------------------------
Finished(r) == pc[r] = "done"
Resp(r) == response[r][1]
IsPost(r) == variant \in PostVariants /\ event[r].httpMethod = "POST"

\* The request parameters as the variant reads them (body or query).
Params(r) ==
  IF variant \in PostVariants
  THEN (IF event[r].body.raw = "object" THEN event[r].body.fields ELSE NoFields)
  ELSE OrElse(event[r].queryStringParameters, NoFields)
HasObjectBody(r) == IsPost(r) /\ event[r].body.raw = "object"

\* The catalog as loadIndex of the POST variants returns it.
Catalog == loadIndex_post(variant, fsys, cachedDataDir).res
IsSuccess(r) == "success" \in DOMAIN Resp(r).body /\ Resp(r).body.success = TRUE
IsFailure(r) == /\ DOMAIN Resp(r).body = {"success", "error"}
                /\ Resp(r).body.success = FALSE

IndexAnswer(r) ==
  /\ Resp(r).statusCode = 200
  /\ IsSuccess(r)
  /\ "products" \in DOMAIN Resp(r).body
  /\ Len(Resp(r).body.products) = Len(Catalog.value)
  /\ \A i \in 1..Len(Catalog.value) :
       Resp(r).body.products[i] = Stringify(lite(Catalog.value[i]))

\* C1 as stated: every POST index request against a catalog that loads as
\* a sequence of records is answered 200 with one projected record per
\* catalog record, in catalog order, whatever asinA/asinB it carries.
C1_IndexComplete_AnyAsin ==
  \A r \in Slots :
    (Finished(r) /\ HasObjectBody(r) /\ Params(r).mode = Str(<<"index">>) /\ ~Catalog.thrown)
      => IndexAnswer(r)

\* C1 amended: the same, for requests whose asinA and asinB are absent,
\* falsy or strings (a truthy non-string identifier fails in .trim()).
C1_IndexComplete ==
  \A r \in Slots :
    (/\ Finished(r) /\ HasObjectBody(r) /\ Params(r).mode = Str(<<"index">>) /\ ~Catalog.thrown
     /\ Params(r).asinA \in AsinStrings /\ Params(r).asinB \in AsinStrings)
      => IndexAnswer(r)

C1_Witness ==
  \E r \in Slots :
    /\ Finished(r) /\ HasObjectBody(r) /\ Params(r).mode = Str(<<"index">>)
    /\ Params(r).asinA = Str(<<"Z">>) /\ Params(r).asinB = JSUndef
    /\ ~Catalog.thrown /\ Len(Catalog.value) = 3
    /\ Resp(r).statusCode = 200 /\ Len(Resp(r).body.products) = 3

\* The mode and identifiers of the request, as the variant reads them.
ReqMode(r) ==
  IF variant \in PostVariants THEN Params(r).mode
  ELSE Str(toLowerCase(OrElse(Params(r).mode, Str(<<"metrics">>)).s))
ReqAsinA(r) == Trim(OrElse(Params(r).asinA, Str(<<>>)).s)
ReqAsinB(r) == Trim(OrElse(Params(r).asinB, Str(<<>>)).s)
StringAsins(r) == Params(r).asinA \in AsinStrings /\ Params(r).asinB \in AsinStrings

\* A comparison request with two non-empty identifiers that the handler
\* has answered.
Comparison(r) ==
  /\ Finished(r)
  /\ event[r].httpMethod # "OPTIONS"
  /\ variant \in PostVariants => HasObjectBody(r)
  /\ ReqMode(r) \in {Str(<<"metrics">>), Str(<<"narrative">>)}
  /\ StringAsins(r)
  /\ ReqAsinA(r) # <<>> /\ ReqAsinB(r) # <<>>

\* The catalog document on disk, when the data directory resolves to a
\* directory and lama_index.json is there and is JSON.
DocOnDisk ==
  LET dir == IF variant = "part_000" THEN resolveDataDir(fsys, <<>>).res
             ELSE IF variant = "part_001" THEN getDataDir_part_001(fsys)
             ELSE getDataDir_verifymyth(fsys)
  IN IF dir.thrown THEN dir ELSE ReadIndexJSON(variant, fsys, dir.value)

\* The records of a catalog document in any of the three shapes.
RecordsOf(doc) ==
  IF doc.t = "arr" THEN doc.s
  ELSE IF doc.t # "obj" THEN <<>>
  ELSE IF Get(doc, <<"products">>).t = "arr" THEN Get(doc, <<"products">>).s
  ELSE doc.vals
CatalogReadable == ~DocOnDisk.thrown /\ DocOnDisk.value.t \in {"arr", "obj"}
CatalogRecords == RecordsOf(DocOnDisk.value)
CatalogIsSequence ==
  DocOnDisk.value.t = "arr" \/ Get(DocOnDisk.value, <<"products">>).t = "arr"

\* Identifiers compared after case folding.
SameId(x, id) == x.t = "str" /\ toUpperCase(x.s) = toUpperCase(id)
InCatalog(id) ==
  \E i \in 1..Len(CatalogRecords) : SameId(CatalogRecords[i].asin, id)
Unknown(id) ==
  \A i \in 1..Len(CatalogRecords) :
    ~SameId(CatalogRecords[i].asin, id) /\ ~SameId(CatalogRecords[i].ASIN, id)

\* C2: a metrics or narrative request with two non-empty identifiers of
\* which at least one matches no catalog record is answered 404 with an
\* error message that contains each identifier that was not found.
C2_NotFoundNamesIds ==
  \A r \in Slots :
    (Comparison(r) /\ CatalogReadable /\ (Unknown(ReqAsinA(r)) \/ Unknown(ReqAsinB(r))))
      => /\ Resp(r).statusCode = 404
         /\ IsFailure(r)
         /\ Unknown(ReqAsinA(r)) => Contains(Resp(r).body.error, ReqAsinA(r))
         /\ Unknown(ReqAsinB(r)) => Contains(Resp(r).body.error, ReqAsinB(r))

\* A review-text file for identifier id, under the loosest naming any
\* variant accepts: "<id>_...blog.txt" ignoring case.
DataDirListing == IF CatalogReadable THEN fsys.listing ELSE <<>>
HasBlog(id) ==
  \E i \in 1..Len(DataDirListing) :
    /\ startsWith(toUpperCase(DataDirListing[i].name), toUpperCase(id) \o <<"_">>)
    /\ endsWith(toUpperCase(DataDirListing[i].name), <<"BLOG.TXT">>)

\* Both identifiers of the request were resolved to catalog records.
Resolved(r) == locals[r].prodA # <<>> /\ locals[r].prodB # <<>>

\* C3: a narrative request whose identifiers both resolve but for which a
\* review-text file is absent is answered 404 and never calls the
\* Text-Completion Service.
C3_MissingBlogIs404 ==
  \A r \in Slots :
    (/\ Comparison(r) /\ ReqMode(r) = Str(<<"narrative">>) /\ Resolved(r)
     /\ (~HasBlog(locals[r].prodA[1].asin.s) \/ ~HasBlog(locals[r].prodB[1].asin.s)))
      => /\ Resp(r).statusCode = 404
         /\ fetches[r] = <<>>

\* C4: identifier matching is case-insensitive: a request whose
\* identifiers equal catalog identifiers after case folding resolves both
\* records and is not answered as not-found.
C4_CaseInsensitive ==
  \A r \in Slots :
    (/\ Comparison(r) /\ CatalogReadable /\ CatalogIsSequence
     /\ InCatalog(ReqAsinA(r)) /\ InCatalog(ReqAsinB(r)))
      => /\ Resolved(r)
         /\ SameId(locals[r].prodA[1].asin, ReqAsinA(r))
         /\ SameId(locals[r].prodB[1].asin, ReqAsinB(r))

\* C5: every response, on every path, carries the CORS headers: wildcard
\* origin, the allowed methods, and Content-Type as allowed header.
C5_CorsOnEveryResponse ==
  \A r \in Slots :
    response[r] # <<>> =>
      /\ DOMAIN Resp(r).headers = {"origin", "methods", "allowHeaders"}
      /\ Resp(r).headers.origin = "*"
      /\ Resp(r).headers.methods \in {"POST,OPTIONS", "GET, POST, OPTIONS"}
      /\ Resp(r).headers.allowHeaders = "Content-Type"

C5_Witness ==
  \E r \in Slots :
    /\ Finished(r) /\ Resp(r).statusCode = 500
    /\ log[r] = <<"Error general verifymyth">>
    /\ Resp(r).headers.origin = "*"

IsString(m) == \A i \in 1..Len(m) : m[i] \in STRING

\* A failure happened while the request was handled: the handlers call
\* console.error in every catch block and in loadBlogFile.
FailureLogged(r) == log[r] # <<>>

\* The Text-Completion step of metrics mode failed in a POST variant.
MetricsCallFailed(r) ==
  /\ IsPost(r) /\ ReqMode(r) = Str(<<"metrics">>)
  /\ log[r] = <<"Error en Gemini metrics">>

FailureEnvelope(r) == IsFailure(r) /\ IsString(Resp(r).body.error)

\* C6 as stated: no failure escapes as an uncaught exception; whatever
\* fails, the handler returns the envelope {success: false, error: string}.
C6_EveryFailureIsEnvelope ==
  \A r \in Slots :
    /\ pc[r] # "rejected"
    /\ (Finished(r) /\ FailureLogged(r)) => FailureEnvelope(r)

\* C6 amended: no failure escapes as an uncaught exception; whatever fails,
\* the handler returns the failure envelope, except that a failed
\* Text-Completion step in metrics mode of the POST variants is answered
\* 200 with success true and analysis null.
C6_FailuresAreAnswered ==
  \A r \in Slots :
    /\ pc[r] # "rejected"
    /\ (Finished(r) /\ FailureLogged(r) /\ ~MetricsCallFailed(r)) => FailureEnvelope(r)
    /\ (Finished(r) /\ MetricsCallFailed(r)) =>
         /\ Resp(r).statusCode = 200 /\ IsSuccess(r)
         /\ Resp(r).body.analysis = JSNull

C6_Witness ==
  \E r \in Slots :
    /\ Finished(r) /\ variant = "part_001" /\ res[r].state = "read" /\ ~res[r].body.valid
    /\ FailureLogged(r) /\ Resp(r).statusCode = 500 /\ FailureEnvelope(r)

\* An identifier that is literally the asin of a catalog record.
ExactlyInCatalog(id) ==
  \E i \in 1..Len(CatalogRecords) : CatalogRecords[i].asin = Str(id)

\* C7: whichever of the three shapes the catalog has, a metrics request
\* for two identifiers present in it resolves both records and is not
\* failed for the catalog's shape.
C7_ThreeShapesAccepted ==
  \A r \in Slots :
    (/\ Comparison(r) /\ ReqMode(r) = Str(<<"metrics">>) /\ CatalogReadable
     /\ ExactlyInCatalog(ReqAsinA(r)) /\ ExactlyInCatalog(ReqAsinB(r)))
      => /\ Resolved(r)
         /\ Resp(r) # InternalError(variant, <<"Formato inesperado en lama_index.json">>)

\* The first catalog record whose identifier equals id after case folding.
FirstMatch(id) ==
  CatalogRecords[CHOOSE i \in 1..Len(CatalogRecords) :
                   /\ SameId(CatalogRecords[i].asin, id)
                   /\ \A j \in 1..(i - 1) : ~SameId(CatalogRecords[j].asin, id)]

\* The text generated by the service: the texts of the parts of the first
\* candidate, joined and trimmed; empty when there is none.
TextOf(data) ==
  IF /\ data.t = "obj" /\ data.candidates.t = "arr" /\ data.candidates.s # <<>>
     /\ data.candidates.s[1].content.t = "obj"
     /\ data.candidates.s[1].content.parts.t = "arr"
  THEN JoinParts(data.candidates.s[1].content.parts.s)
  ELSE <<>>

\* The call of request r succeeded: success status and a non-empty text.
CallSucceeded(r) ==
  /\ res[r].state = "read" /\ res[r].ok /\ res[r].body.valid
  /\ TextOf(res[r].body.data) # <<>>

\* C8: in metrics mode of verifymyth.js, when both identifiers resolve the
\* answer is 200, success true, products = [A, B], whatever the service
\* does; analysis is the generated text when the call succeeds, else null.
C8_MetricsDegrades ==
  \A r \in Slots :
    (/\ variant = "verifymyth" /\ Comparison(r) /\ ReqMode(r) = Str(<<"metrics">>)
     /\ CatalogReadable /\ CatalogIsSequence
     /\ InCatalog(ReqAsinA(r)) /\ InCatalog(ReqAsinB(r)))
      => /\ Resp(r).statusCode = 200
         /\ DOMAIN Resp(r).body = {"success", "products", "analysis"}
         /\ Resp(r).body.success = TRUE
         /\ Resp(r).body.products = << Stringify(FirstMatch(ReqAsinA(r))),
                                       Stringify(FirstMatch(ReqAsinB(r))) >>
         /\ Resp(r).body.analysis = IF CallSucceeded(r) THEN Str(TextOf(res[r].body.data))
                                    ELSE JSNull

C8_Witness ==
  \E r \in Slots :
    /\ variant = "verifymyth" /\ Comparison(r) /\ ReqMode(r) = Str(<<"metrics">>)
    /\ ReqAsinA(r) = <<"a">> /\ ReqAsinB(r) = <<"B">>
    /\ res[r].state = "read" /\ res[r].ok /\ res[r].body.valid /\ ~CallSucceeded(r)
    /\ Resp(r).statusCode = 200 /\ Resp(r).body.analysis = JSNull

NoDataDir == \A i \in DOMAIN fsys.layout : fsys.layout[i] = "absent"

\* C9: in verifymyth.js a configuration error is fatal: a metrics or
\* narrative request that reaches the Text-Completion step without the
\* credential, and a request with a mode that finds no data directory,
\* are answered 500 with success false.
C9_ConfigErrorIsFatal ==
  \A r \in Slots :
    /\ (/\ variant = "verifymyth" /\ Comparison(r) /\ Resolved(r) /\ ~apiKey
        /\ Resp(r).statusCode # 404)
         => (Resp(r).statusCode = 500 /\ IsFailure(r))
    /\ (/\ variant = "verifymyth" /\ Finished(r) /\ HasObjectBody(r) /\ StringAsins(r)
        /\ Truthy(Params(r).mode) /\ NoDataDir)
         => (Resp(r).statusCode = 500 /\ IsFailure(r))

\* C10: an empty generated text is a service failure: a narrative request
\* never succeeds with an empty text and a metrics request never returns
\* an empty-string analysis.
C10_EmptyTextIsFailure ==
  \A r \in Slots :
    (Comparison(r) /\ IsSuccess(r)) =>
      /\ ("text" \in DOMAIN Resp(r).body) => Resp(r).body.text # Str(<<>>)
      /\ ("finalOpinion" \in DOMAIN Resp(r).body) => Resp(r).body.finalOpinion # Str(<<>>)
      /\ ("quickSummary" \in DOMAIN Resp(r).body) => Resp(r).body.quickSummary # Str(<<>>)
      /\ ("analysis" \in DOMAIN Resp(r).body /\ variant \in PostVariants)
           => Resp(r).body.analysis # Str(<<>>)

\* The call of request r failed by exception or non-success status: no
\* credential, fetch rejected, res.ok false, or a body that is not JSON.
CallFailed(r) ==
  \/ res[r].state = "rejected"
  \/ res[r].state = "read" /\ (~res[r].ok \/ ~res[r].body.valid)
  \/ res[r].state = "none" /\ ~apiKey

\* A narrative request whose identifiers and review texts all resolve, as
\* the variant resolves them.
NarrativeReady(r) ==
  /\ Comparison(r) /\ ReqMode(r) = Str(<<"narrative">>)
  /\ CatalogReadable
  /\ variant \in PostVariants => CatalogIsSequence
  /\ Resolved(r)
  /\ locals[r].blogA # <<>> /\ locals[r].blogB # <<>>

\* C11: a narrative request whose identifiers and review texts resolve but
\* whose Text-Completion call fails (exception or non-success status) is
\* answered 500 with success false, never with a success envelope or
\* partial content.
C11_NarrativeFailsHard ==
  \A r \in Slots :
    (NarrativeReady(r) /\ CallFailed(r))
      => /\ Resp(r).statusCode = 500
         /\ FailureEnvelope(r)

C11_Witness ==
  \E r \in Slots :
    /\ NarrativeReady(r) /\ variant = "part_000"
    /\ res[r].state = "read" /\ ~res[r].ok
    /\ Resp(r).statusCode = 500 /\ FailureEnvelope(r)

KnownModes == {Str(<<"index">>), Str(<<"metrics">>), Str(<<"narrative">>)}
UnknownModeMessage == <<"Modo no reconocido. Usa 'index', 'metrics' o 'narrative'.">>

\* C12: in verifymyth.js every POST request whose mode is present but is
\* not index, metrics or narrative is answered with the fixed 400 response
\* naming the three valid modes, whatever identifiers it carries.
C12_UnknownModeIsFixed400 ==
  \A r \in Slots :
    (/\ variant = "verifymyth" /\ Finished(r) /\ HasObjectBody(r) /\ StringAsins(r)
     /\ CatalogReadable /\ CatalogIsSequence
     /\ Truthy(Params(r).mode) /\ Params(r).mode \notin KnownModes)
      => /\ Resp(r).statusCode = 400
         /\ IsFailure(r)
         /\ Resp(r).body.error = UnknownModeMessage

\* A request the handler has answered whose parameters it could read:
\* not a preflight, a JSON object body in the POST variants, and
\* identifiers that are absent or strings.
ReadableRequest(r) ==
  /\ Finished(r)
  /\ event[r].httpMethod # "OPTIONS"
  /\ variant \in PostVariants => HasObjectBody(r)
  /\ StringAsins(r)
LacksAsin(r) == ReqAsinA(r) = <<>> \/ ReqAsinB(r) = <<>>
Is400(r) == Resp(r).statusCode = 400 /\ IsFailure(r)

\* C13: validation errors are reported as 400: a metrics or narrative
\* request that lacks asinA or asinB (absent, empty or whitespace-only) is
\* answered 400 with success false, a request without a mode is answered
\* 400 in the POST variants, and index mode does not require identifiers.
C13_ValidationIs400 ==
  \A r \in Slots :
    ReadableRequest(r)
      => /\ (ReqMode(r) \in {Str(<<"metrics">>), Str(<<"narrative">>)} /\ LacksAsin(r))
              => Is400(r)
         /\ (variant \in PostVariants /\ ~Truthy(Params(r).mode)) => Is400(r)
         /\ (/\ ReqMode(r) = Str(<<"index">>) /\ LacksAsin(r) /\ CatalogReadable
             /\ variant \in PostVariants => CatalogIsSequence)
              => Resp(r).statusCode = 200

\* Data-directory resolution of the variant, as a request arriving now
\* would perform it.
ResolveNow ==
  IF variant = "part_000" THEN resolveDataDir(fsys, cachedDataDir).res
  ELSE IF variant = "part_001" THEN getDataDir_part_001(fsys)
  ELSE getDataDir_verifymyth(fsys)
Directories == {i \in DOMAIN fsys.layout : fsys.layout[i] = "dir"}
FirstDirectory == candidates(variant)[CHOOSE i \in Directories : \A j \in Directories : i <= j]

\* A request that the handler answered after it tried to resolve the data
\* directory.
TriedDataDir(r) ==
  /\ ReadableRequest(r)
  /\ variant \in PostVariants => Truthy(Params(r).mode)
  /\ variant = "part_001" => (~LacksAsin(r) /\ ReqMode(r) \in KnownModes)

\* C14: data-directory resolution returns the first directory of the
\* ordered candidate list that exists, never a later one; when no candidate
\* exists it raises an error that lists every candidate path and the
\* request is answered 500 with that message; in part_000 the cached path
\* is what every later resolution returns.
C14_FirstExistingDirectory ==
  /\ \A r \in Slots :
       (TriedDataDir(r) /\ Directories # {})
         => (~ResolveNow.thrown /\ ResolveNow.value = FirstDirectory)
  /\ NoDataDir =>
       /\ ResolveNow.thrown
       /\ \A i \in DOMAIN fsys.layout : Contains(ResolveNow.message, candidates(variant)[i])
       /\ \A r \in Slots :
            TriedDataDir(r) => /\ Resp(r).statusCode = 500
                               /\ FailureEnvelope(r)
                               /\ Contains(Resp(r).body.error, ResolveNow.message)
  /\ (variant = "part_000" /\ cachedDataDir # <<>>) => ResolveNow = Ok(cachedDataDir)

\* The Text-Completion Service was called for invocation r.
Called(r) == fetches[r] # <<>>

\* C15: one request causes at most one call to the Text-Completion Service
\* (no retry after a failure); a call happens only in metrics or narrative
\* mode after both identifiers were resolved to catalog records and, in
\* narrative mode, after both review texts were loaded; index, preflight,
\* wrong-method, validation-error and not-found answers make no call.
C15_AtMostOneCall ==
  \A r \in Slots :
    /\ Len(fetches[r]) <= 1
    /\ Called(r) =>
         /\ event[r].httpMethod # "OPTIONS"
         /\ variant \in PostVariants => HasObjectBody(r)
         /\ ReqMode(r) \in {Str(<<"metrics">>), Str(<<"narrative">>)}
         /\ ~LacksAsin(r)
         /\ Resolved(r)
         /\ fetches[r][1] = Prompt(locals[r])
         /\ ReqMode(r) = Str(<<"narrative">>) =>
              /\ HasBlog(locals[r].prodA[1].asin.s)
              /\ HasBlog(locals[r].prodB[1].asin.s)
    /\ (Finished(r) /\ Resp(r).statusCode \in {204, 400, 404, 405}) => ~Called(r)
    /\ (Finished(r) /\ ReqMode(r) = Str(<<"index">>)) => ~Called(r)

C15_Witness ==
  \E r \in Slots :
    /\ Finished(r) /\ ReqMode(r) = Str(<<"narrative">>)
    /\ res[r].state = "rejected"
    /\ Len(fetches[r]) = 1 /\ fetches[r][1].blogA # <<>>
    /\ Resp(r).statusCode = 500

StatusCodes == {200, 204, 400, 404, 405, 500}
IsPreflight(r) == event[r].httpMethod = "OPTIONS"

\* C17: status and envelope agree on every non-preflight response: success
\* is true exactly when the status is 200, every 400, 404, 405 or 500
\* response has success false and an error string, and no status code
\* outside 200, 204, 400, 404, 405, 500 is returned.
C17_StatusAgreesWithEnvelope ==
  \A r \in Slots :
    Finished(r)
      => /\ Resp(r).statusCode \in StatusCodes
         /\ ~IsPreflight(r) =>
              /\ IsSuccess(r) <=> Resp(r).statusCode = 200
              /\ Resp(r).statusCode \in {400, 404, 405, 500} => FailureEnvelope(r)
              /\ Resp(r).statusCode # 204

C17_Witness ==
  \E r \in Slots :
    /\ Finished(r) /\ ~IsPreflight(r) /\ variant = "part_000"
    /\ ReqMode(r) = Str(<<"narrative">>)
    /\ Resp(r).statusCode = 404 /\ FailureEnvelope(r) /\ ~IsSuccess(r)

\* What invocation r would do if it ran alone in a fresh process against
\* the same files, credential and service reply.
AloneFirst(r) == handler(variant, event[r], fsys, apiKey, <<>>)
AloneReply(r) ==
  IF res[r].state = "rejected" THEN Throw(<<"fetch failed">>)
  ELSE callGemini(variant, res[r].ok, res[r].body)
Alone(r) ==
  IF AloneFirst(r).kind = "await" /\ res[r].state \in {"rejected", "read"}
  THEN resume(variant, AloneFirst(r).locals, AloneReply(r), AloneFirst(r).cache)
  ELSE AloneFirst(r)

SameAsAlone(r) ==
  /\ pc[r] \in {"fetch", "body"} =>
       /\ Alone(r).kind = "await"
       /\ fetches[r] = <<Prompt(Alone(r).locals)>>
  /\ pc[r] = "done" => (Alone(r).kind = "return" /\ response[r] = Alone(r).response)
  /\ pc[r] = "rejected" => Alone(r).kind = "throw"

CacheIsOwnValue ==
  /\ variant # "part_000" => cachedDataDir = <<>>
  /\ cachedDataDir # <<>> => cachedDataDir = resolveDataDir(fsys, <<>>).cache
CacheWrittenOnce == cachedDataDir # <<>> => cachedDataDir' = cachedDataDir

\* C16: requests are handled independently: with invocations interleaved
\* in any order at the awaited service call, each invocation sends the
\* prompt and returns the response it would if it ran alone against the
\* same catalog, review texts and service reply, and cachedDataDir, the
\* only state they share, is written at most once, with the value every
\* request would have computed itself.
C16_Independent ==
  /\ [](\A r \in Slots : SameAsAlone(r))
  /\ []CacheIsOwnValue
  /\ [][CacheWrittenOnce]_vars

\* Two invocations in flight in one process of part_000: one suspended at
\* the read of the service body, the other answered after its own call,
\* with the data directory cached.
C16_Witness ==
  /\ variant = "part_000" /\ cachedDataDir # <<>>
  /\ pc[1] = "body" /\ pc[2] = "done"
  /\ Called(1) /\ Called(2) /\ res[2].state = "read"
  /\ event[1] # event[2]
  /\ response[2] = Alone(2).response
====
